---- MODULE Spec2Model ----
(***************************************************************************)
(* Model of pkg/apiclient/client_factory.go: the Client factory that       *)
(* lazily resolves and memoizes a system handle and a space-scoped handle. *)
(* Strings are sequences of one-character strings, so that case folding   *)
(* and formatting are computed character by character.                    *)
(***************************************************************************)
EXTENDS Integers, Sequences, FiniteSets, TLC

\* ------------------------------------------------------------------ bounds
\* Longest list of spaces the server returns.
MaxSpaces == 2

\* ----------------------------------------------------------------- strings
Chars == {"a", "A", "b", "B"}

\* unicode.SimpleFold restricted to the alphabet: upper case folds to lower.
Lower(ch) == IF ch = "A" THEN "a" ELSE IF ch = "B" THEN "b" ELSE ch

\* strings.EqualFold(s, t)
EqualFold(s, t) ==
    /\ Len(s) = Len(t)
    /\ \A i \in 1..Len(s) : Lower(s[i]) = Lower(t[i])

\* Names and IDs the server gives its spaces (never empty).
SpaceNames == {<<"A">>, <<"b">>}
SpaceIDs == {<<"a">>, <<"b">>, <<"B">>}

\* Identifiers a caller can request: the empty string or any string.
Identifiers == {<<>>} \cup {<<ch>> : ch \in Chars}

\* ------------------------------------------------------------------ values
\* spaces.Space: the fields the factory reads.
Spaces == [Name : SpaceNames, ID : SpaceIDs]

\* (*spaces.Space)(nil)
NilSpace == [Name |-> <<>>, ID |-> <<>>]

\* (*octopusApiClient.Client)(nil)
NilClient == [n |-> 0, SpaceID |-> <<>>]

\* error(nil)
NoError == [kind |-> "nil", msg |-> <<>>]

\* Errors of the SDK's network-dependent calls (NewClient, Spaces.GetAll).
UpstreamError == [kind |-> "upstream", msg |-> <<"dial tcp: connection refused">>]

\* Error of an interrupted prompt.
PromptError == [kind |-> "prompt", msg |-> <<"interrupt">>]

\* errors.New(text)
ErrorsNew(text) == [kind |-> "errorString", msg |-> <<text>>]

\* question.Asker(nil): no-prompt mode.
NilAsker == "nil"
Askers == {NilAsker, "survey.AskOne"}

\* What the server can hold: lists of spaces with pairwise distinct IDs.
SpaceLists ==
    { l \in UNION {[1..k -> Spaces] : k \in 0..MaxSpaces} :
        \A i, j \in 1..Len(l) : i # j => l[i].ID # l[j].ID }

\* ------------------------------------------------------------------- state
VARIABLES
    c,              \* the Client struct (the receiver of every method)
    serverSpaces,   \* the spaces the server holds now
    reset,          \* the handle the last SetSpaceNameOrId dropped, and whether
                    \* no GetSpacedClient has run since (pending); whether no
                    \* GetSpacedClient has run since construction or the last
                    \* reset (fresh); the handle GetSystemClient returned since
                    \* the last reset or successful GetSpacedClient (system)
    last            \* the last event: operation, argument, the struct before
                    \* (pre), the server's list, outputs, effort; first says
                    \* that it is the first GetSpacedClient after a reset;
                    \* space is what GetActiveSpace returned, answer what the
                    \* user did with the prompt, prior the handle an earlier
                    \* GetSystemClient returned
VARIABLES
    startup,        \* NewClientFactoryFromEnvironment: the process environment
                    \* and, once it has run, what it returned
    create          \* the ssh account create command: the options CreateRun
                    \* is given and, once it has run, what it did

factoryVars == <<c, serverSpaces, reset, last>>
vars == <<c, serverSpaces, reset, last, startup, create>>

\* NewClientFactory(httpClient, host, apiKey, spaceNameOrID, asker)
NewClientFactory(httpClient, host, apiKey, spaceNameOrID, asker) ==
    [ HttpClient        |-> httpClient,
      SystemClient      |-> NilClient,
      SpaceScopedClient |-> NilClient,
      ApiUrl            |-> host,
      ApiKey            |-> apiKey,
      SpaceNameOrID     |-> spaceNameOrID,
      ActiveSpace       |-> NilSpace,
      Ask               |-> asker ]

\* No prompt was shown.
NoAnswer == [idx |-> 0, err |-> NoError]

\* The record of an event.
Event(op, arg, pre, srv, r) ==
    [ op |-> op, arg |-> arg, pre |-> pre, srv |-> srv, first |-> FALSE,
      space |-> NilSpace, answer |-> NoAnswer, prior |-> NilClient,
      ret |-> r.ret, err |-> r.err, cause |-> r.cause,
      nList |-> r.nList, nAsk |-> r.nAsk, nNew |-> r.nNew ]

\* The result of a call: the struct afterwards, what is returned, the
\* underlying error of the failed network step (cause), and the effort.
Result(cc, ret, err, cause, nList, nAsk, nNew) ==
    [ c |-> cc, ret |-> ret, err |-> err, cause |-> cause,
      nList |-> nList, nAsk |-> nAsk, nNew |-> nNew ]

Nothing == Result(NilSpace, NilClient, NoError, NoError, 0, 0, 0)

Init ==
    /\ \E id \in Identifiers, asker \in Askers :
          c = NewClientFactory("http.Client", "https://octopus", "API-KEY", id, asker)
    /\ serverSpaces \in SpaceLists
    /\ reset = [pending |-> FALSE, SpaceScopedClient |-> NilClient,
                fresh |-> TRUE, system |-> NilClient]
    /\ last = Event("NewClientFactory", c.SpaceNameOrID, c, serverSpaces, Nothing)
    /\ startup = "none"
    /\ create = "none"

\* ------------------------------------------------------------ SDK boundary
\* The least handle number that no handle in held carries: a new handle is
\* a pointer distinct from every pointer still held.
FreshHandle(held) ==
    CHOOSE k \in 1..(Cardinality(held) + 1) :
        /\ \A h \in held : h.n # k
        /\ \A j \in 1..(k - 1) : \E h \in held : h.n = j

\* octopusApiClient.NewClient(httpClient, apiUrl, apiKey, spaceID): a fresh
\* handle bound to spaceID, or the SDK's error. outcome is what the network
\* does to the call; held are the handles in use.
NewClient(httpClient, apiUrl, apiKey, spaceID, outcome, held) ==
    IF outcome # NoError
    THEN [client |-> NilClient, err |-> outcome]
    ELSE [client |-> [n |-> FreshHandle(held), SpaceID |-> spaceID], err |-> NoError]

\* systemClient.Spaces.GetAll(): the server's list, or the SDK's error.
GetAll(srv, outcome) ==
    IF outcome # NoError
    THEN [spaces |-> <<>>, err |-> outcome]
    ELSE [spaces |-> srv, err |-> NoError]

\* question.SelectMap(ask, message, items, getKey): the item the user
\* selects, or the prompt's error. answer is what the user does.
SelectMap(ask, items, answer) ==
    IF answer.err # NoError
    THEN [item |-> NilSpace, err |-> answer.err]
    ELSE [item |-> items[answer.idx], err |-> NoError]

\* What the network can do to one call.
Outcomes == {NoError, UpstreamError}

\* What the user can do with a prompt over items.
Answers(items) ==
    {[idx |-> i, err |-> NoError] : i \in 1..Len(items)}
        \cup {[idx |-> 0, err |-> PromptError]}

\* What the environment does during one GetSpacedClient: to the construction
\* of the system handle, to the listing, to the prompt, to the construction
\* of the space-scoped handle.
Environments(srv) ==
    [sys : Outcomes, list : Outcomes, ask : Answers(srv), scoped : Outcomes]

\* What the environment does during one GetSystemClient.
SystemEnvironments ==
    [sys : Outcomes, list : {NoError}, ask : {[idx |-> 0, err |-> PromptError]},
     scoped : {NoError}]

\* ------------------------------------------------------------ error values
ErrSpaceMustBeSpecified ==
    ErrorsNew("space must be specified when not running interactively; please set the OCTOPUS_SPACE environment variable or specify --space on the command line")

ErrNoSpacesFound == ErrorsNew("no spaces found")

\* fmt.Errorf("cannot load spaces. Error: %v", err)
ErrCannotLoadSpaces(err) ==
    [kind |-> "errorString", msg |-> <<"cannot load spaces. Error: ">> \o err.msg]

\* Variant: the identifier is lower-cased before it is formatted.
ErrCannotFindSpaceFolded(spaceNameOrID) ==
    [kind |-> "errorString",
     msg |-> <<"cannot find space '">>
                \o [i \in 1..Len(spaceNameOrID) |-> Lower(spaceNameOrID[i])] \o <<"'">>]

\* fmt.Errorf("cannot find space '%s'", spaceNameOrID)
ErrCannotFindSpace(spaceNameOrID) ==
    [kind |-> "errorString", msg |-> <<"cannot find space '">> \o spaceNameOrID \o <<"'">>]

\* ------------------------------------------------------- SetSpaceNameOrId
\* Variant: the space-scoped handle survives the reset.
SetSpaceNameOrIdCallKeepsHandle(cc, spaceNameOrId) ==
    [cc EXCEPT !.SystemClient = NilClient,
               !.ActiveSpace = NilSpace,
               !.SpaceNameOrID = spaceNameOrId]

\* Variant: the reset also drops the API key.
SetSpaceNameOrIdCallDropsKey(cc, spaceNameOrId) ==
    [cc EXCEPT !.SystemClient = NilClient,
               !.SpaceScopedClient = NilClient,
               !.ActiveSpace = NilSpace,
               !.ApiKey = "",
               !.SpaceNameOrID = spaceNameOrId]

\* Variant: the resolved space survives the reset.
SetSpaceNameOrIdCallKeepsSpace(cc, spaceNameOrId) ==
    [cc EXCEPT !.SystemClient = NilClient,
               !.SpaceScopedClient = NilClient,
               !.SpaceNameOrID = spaceNameOrId]

SetSpaceNameOrIdCall(cc, spaceNameOrId) ==
    [cc EXCEPT !.SystemClient = NilClient,
               !.SpaceScopedClient = NilClient,
               !.ActiveSpace = NilSpace,
               !.SpaceNameOrID = spaceNameOrId]

\* -------------------------------------------------------- GetSystemClient
\* Variant: the system handle is not memoized, every call constructs one.
GetSystemClientCallNoMemo(cc, o, held) ==
    IF cc.SpaceScopedClient # NilClient
    THEN Result(cc, cc.SpaceScopedClient, NoError, NoError, 0, 0, 0)
    ELSE LET r == NewClient(cc.HttpClient, cc.ApiUrl, cc.ApiKey, <<>>, o.sys, held) IN
         IF r.err # NoError
         THEN Result(cc, NilClient, r.err, r.err, 0, 0, 1)
         ELSE Result([cc EXCEPT !.SystemClient = r.client], r.client,
                     NoError, NoError, 0, 0, 1)

\* Variant: the space-scoped handle is not reused as the system handle.
GetSystemClientCallNoUpgrade(cc, o, held) ==
    IF cc.SystemClient # NilClient
    THEN Result(cc, cc.SystemClient, NoError, NoError, 0, 0, 0)
    ELSE LET r == NewClient(cc.HttpClient, cc.ApiUrl, cc.ApiKey, <<>>, o.sys, held) IN
         IF r.err # NoError
         THEN Result(cc, NilClient, r.err, r.err, 0, 0, 1)
         ELSE Result([cc EXCEPT !.SystemClient = r.client], r.client,
                     NoError, NoError, 0, 0, 1)

GetSystemClientCall(cc, o, held) ==
    IF cc.SpaceScopedClient # NilClient
    THEN Result(cc, cc.SpaceScopedClient, NoError, NoError, 0, 0, 0)
    ELSE IF cc.SystemClient # NilClient
    THEN Result(cc, cc.SystemClient, NoError, NoError, 0, 0, 0)
    ELSE LET r == NewClient(cc.HttpClient, cc.ApiUrl, cc.ApiKey, <<>>, o.sys, held) IN
         IF r.err # NoError
         THEN Result(cc, NilClient, r.err, r.err, 0, 0, 1)
         ELSE Result([cc EXCEPT !.SystemClient = r.client], r.client,
                     NoError, NoError, 0, 0, 1)

\* -------------------------------------------------------- GetSpacedClient
\* The loop over allSpaces: the first space whose name folds to x, else the
\* last space before it (or in the whole list) whose ID folds to x, else nil.
RECURSIVE FindSpaceFrom(_, _, _, _)
FindSpaceFrom(allSpaces, x, i, foundSpaceByID) ==
    IF i > Len(allSpaces) THEN foundSpaceByID
    ELSE IF EqualFold(allSpaces[i].Name, x) THEN allSpaces[i]
    ELSE IF EqualFold(allSpaces[i].ID, x)
         THEN FindSpaceFrom(allSpaces, x, i + 1, allSpaces[i])
         ELSE FindSpaceFrom(allSpaces, x, i + 1, foundSpaceByID)

\* Variant: only the name is compared, there is no fallback to the ID.
FindSpaceNameOnly(allSpaces, x) ==
    LET hits == {i \in 1..Len(allSpaces) : EqualFold(allSpaces[i].Name, x)} IN
    IF hits = {} THEN NilSpace
    ELSE allSpaces[CHOOSE i \in hits : \A j \in hits : i <= j]

\* Variant: the loop also stops at the first hit on the ID.
FindSpaceAnyHit(allSpaces, x) ==
    LET hits == {i \in 1..Len(allSpaces) :
                    \/ EqualFold(allSpaces[i].Name, x)
                    \/ EqualFold(allSpaces[i].ID, x)} IN
    IF hits = {} THEN NilSpace
    ELSE allSpaces[CHOOSE i \in hits : \A j \in hits : i <= j]

FindSpace(allSpaces, x) == FindSpaceFrom(allSpaces, x, 1, NilSpace)

\* A step of GetSpacedClient: the struct afterwards, the space ID found so
\* far, the error the call returns here (NoError: go on), and the effort.
Step(cc, foundSpaceID, err, cause, nList, nAsk) ==
    [ c |-> cc, foundSpaceID |-> foundSpaceID, err |-> err, cause |-> cause,
      nList |-> nList, nAsk |-> nAsk ]

\* Variant: with several spaces the first is selected, the user is not asked.
SwitchOnSpacesNeverAsks(cc, allSpaces, o) ==
    IF Len(allSpaces) = 0
    THEN Step(cc, <<>>, ErrNoSpacesFound, NoError, 1, 0)
    ELSE Step([cc EXCEPT !.ActiveSpace = allSpaces[1],
                         !.SpaceNameOrID = allSpaces[1].ID],
              allSpaces[1].ID, NoError, NoError, 1, 0)

\* Variant: a single space is not selected automatically, the user is asked.
SwitchOnSpacesAlwaysAsk(cc, allSpaces, o) ==
    IF Len(allSpaces) = 0
    THEN Step(cc, <<>>, ErrNoSpacesFound, NoError, 1, 0)
    ELSE LET s == SelectMap(cc.Ask, allSpaces, o.ask) IN
         IF s.err # NoError
         THEN Step(cc, <<>>, s.err, NoError, 1, 1)
         ELSE Step([cc EXCEPT !.ActiveSpace = s.item,
                              !.SpaceNameOrID = s.item.ID],
                   s.item.ID, NoError, NoError, 1, 1)

\* Variant: an empty list is not an error, the user is asked.
SwitchOnSpacesNoZeroCase(cc, allSpaces, o) ==
    IF Len(allSpaces) = 1
    THEN Step([cc EXCEPT !.ActiveSpace = allSpaces[1],
                         !.SpaceNameOrID = allSpaces[1].ID],
              allSpaces[1].ID, NoError, NoError, 1, 0)
    ELSE LET s == SelectMap(cc.Ask, allSpaces, o.ask) IN
         IF s.err # NoError
         THEN Step(cc, <<>>, s.err, NoError, 1, 1)
         ELSE Step([cc EXCEPT !.ActiveSpace = s.item,
                              !.SpaceNameOrID = s.item.ID],
                   s.item.ID, NoError, NoError, 1, 1)

\* switch len(allSpaces): none is an error, one is selected, more are asked.
SwitchOnSpaces(cc, allSpaces, o) ==
    IF Len(allSpaces) = 0
    THEN Step(cc, <<>>, ErrNoSpacesFound, NoError, 1, 0)
    ELSE IF Len(allSpaces) = 1
    THEN LET selectedSpace == allSpaces[1] IN
         Step([cc EXCEPT !.ActiveSpace = selectedSpace,
                         !.SpaceNameOrID = selectedSpace.ID],
              selectedSpace.ID, NoError, NoError, 1, 0)
    ELSE LET s == SelectMap(cc.Ask, allSpaces, o.ask) IN
         IF s.err # NoError
         THEN Step(cc, <<>>, s.err, NoError, 1, 1)
         ELSE Step([cc EXCEPT !.ActiveSpace = s.item,
                              !.SpaceNameOrID = s.item.ID],
                   s.item.ID, NoError, NoError, 1, 1)

\* The listing of the spaces and the choice among them.
ListAndSwitch(cc, srv, o) ==
    LET l == GetAll(srv, o.list) IN
    IF l.err # NoError
    THEN Step(cc, <<>>, l.err, l.err, 1, 0)
    ELSE SwitchOnSpaces(cc, l.spaces, o)

\* Variant: no-prompt mode is not checked.
SelectSpaceIgnoresAsk(cc, srv, o) ==
    IF cc.SpaceNameOrID # <<>>
    THEN Step(cc, <<>>, NoError, NoError, 0, 0)
    ELSE ListAndSwitch(cc, srv, o)

\* The selection of a space when the caller has specified none.
SelectSpace(cc, srv, o) ==
    IF cc.SpaceNameOrID # <<>>
    THEN Step(cc, <<>>, NoError, NoError, 0, 0)
    ELSE IF cc.Ask = NilAsker
    THEN Step(cc, <<>>, ErrSpaceMustBeSpecified, NoError, 0, 0)
    ELSE ListAndSwitch(cc, srv, o)

\* The lookup of the requested identifier, when no space ID is found yet.
LookupSpace(p, srv, o) ==
    IF p.foundSpaceID # <<>>
    THEN p
    ELSE LET l == GetAll(srv, o.list) IN
         IF l.err # NoError
         THEN Step(p.c, <<>>, ErrCannotLoadSpaces(l.err), l.err, p.nList + 1, p.nAsk)
         ELSE LET foundSpace == FindSpace(l.spaces, p.c.SpaceNameOrID) IN
              IF foundSpace = NilSpace
              THEN Step(p.c, <<>>, ErrCannotFindSpace(p.c.SpaceNameOrID), NoError,
                        p.nList + 1, p.nAsk)
              ELSE Step([p.c EXCEPT !.ActiveSpace = foundSpace,
                                    !.SpaceNameOrID = foundSpace.ID],
                        foundSpace.ID, NoError, NoError, p.nList + 1, p.nAsk)

\* Variant: a failed construction is tried once more.
ScopeClientRetries(p, o, held, nNew) ==
    LET r == NewClient(p.c.HttpClient, p.c.ApiUrl, p.c.ApiKey, p.foundSpaceID, o.scoped, held) IN
    IF r.err # NoError
    THEN Result(p.c, NilClient, r.err, r.err, p.nList, p.nAsk, nNew + 2)
    ELSE Result([p.c EXCEPT !.SpaceScopedClient = r.client,
                            !.SystemClient = NilClient],
                r.client, NoError, NoError, p.nList, p.nAsk, nNew + 1)

\* Variant: the system handle stays cached beside the space-scoped one.
ScopeClientKeepsSystem(p, o, held, nNew) ==
    LET r == NewClient(p.c.HttpClient, p.c.ApiUrl, p.c.ApiKey, p.foundSpaceID, o.scoped, held) IN
    IF r.err # NoError
    THEN Result(p.c, NilClient, r.err, r.err, p.nList, p.nAsk, nNew + 1)
    ELSE Result([p.c EXCEPT !.SpaceScopedClient = r.client],
                r.client, NoError, NoError, p.nList, p.nAsk, nNew + 1)

\* The construction and caching of the space-scoped handle.
ScopeClient(p, o, held, nNew) ==
    LET r == NewClient(p.c.HttpClient, p.c.ApiUrl, p.c.ApiKey, p.foundSpaceID, o.scoped, held) IN
    IF r.err # NoError
    THEN Result(p.c, NilClient, r.err, r.err, p.nList, p.nAsk, nNew + 1)
    ELSE Result([p.c EXCEPT !.SpaceScopedClient = r.client,
                            !.SystemClient = NilClient],
                r.client, NoError, NoError, p.nList, p.nAsk, nNew + 1)

\* The resolution, when no space-scoped handle is cached.
ResolveSpacedClient(cc, srv, o, held) ==
    LET s == GetSystemClientCall(cc, o, held) IN
    IF s.err # NoError
    THEN Result(s.c, NilClient, s.err, s.cause, 0, 0, s.nNew)
    ELSE LET a == SelectSpace(s.c, srv, o) IN
         IF a.err # NoError
         THEN Result(a.c, NilClient, a.err, a.cause, a.nList, a.nAsk, s.nNew)
         ELSE LET b == LookupSpace(a, srv, o) IN
              IF b.err # NoError
              THEN Result(b.c, NilClient, b.err, b.cause, b.nList, b.nAsk, s.nNew)
              ELSE ScopeClient(b, o, held \cup {s.ret}, s.nNew)

\* Variant: the cached space-scoped handle is not returned, every call resolves.
GetSpacedClientCallNoMemo(cc, srv, o, held) ==
    ResolveSpacedClient(cc, srv, o, held)

GetSpacedClientCall(cc, srv, o, held) ==
    IF cc.SpaceScopedClient # NilClient
    THEN Result(cc, cc.SpaceScopedClient, NoError, NoError, 0, 0, 0)
    ELSE ResolveSpacedClient(cc, srv, o, held)

\* ----------------------------------------------------------------- actions
\* The handles in use: those the struct caches and those its callers may
\* still hold (the one the last SetSpaceNameOrId dropped, the one an earlier
\* GetSystemClient returned).
Held == {c.SystemClient, c.SpaceScopedClient, reset.SpaceScopedClient, reset.system}

GetSystemClient ==
    \E r \in {GetSystemClientCall(c, o, Held) : o \in SystemEnvironments} :
        /\ c' = r.c
        /\ last' = [Event("GetSystemClient", <<>>, c, serverSpaces, r)
                        EXCEPT !.prior = reset.system]
        /\ reset' = [reset EXCEPT !.system = IF r.err = NoError THEN r.ret ELSE @]
        /\ UNCHANGED <<serverSpaces, startup, create>>

\* One GetSpacedClient under environment o: its result, and what the user
\* did with the prompt if it was shown.
SpacedRun(o) ==
    LET r == GetSpacedClientCall(c, serverSpaces, o, Held) IN
    [r |-> r, answer |-> IF r.nAsk > 0 THEN o.ask ELSE NoAnswer]

GetSpacedClient ==
    \E e \in {SpacedRun(o) : o \in Environments(serverSpaces)} :
        /\ c' = e.r.c
        /\ last' = [Event("GetSpacedClient", <<>>, c, serverSpaces, e.r)
                        EXCEPT !.first = reset.pending, !.answer = e.answer]
        /\ reset' = [reset EXCEPT !.pending = FALSE, !.fresh = FALSE,
                                  !.system = IF e.r.err = NoError THEN NilClient ELSE @]
        /\ UNCHANGED <<serverSpaces, startup, create>>

SetSpaceNameOrId ==
    \E spaceNameOrId \in Identifiers :
        /\ c' = SetSpaceNameOrIdCall(c, spaceNameOrId)
        /\ reset' = [pending |-> TRUE, SpaceScopedClient |-> c.SpaceScopedClient,
                     fresh |-> TRUE, system |-> NilClient]
        /\ last' = Event("SetSpaceNameOrId", spaceNameOrId, c, serverSpaces, Nothing)
        /\ UNCHANGED <<serverSpaces, startup, create>>

\* GetActiveSpace()
GetActiveSpaceCall(cc) == cc.ActiveSpace

GetActiveSpace ==
    /\ last' = [Event("GetActiveSpace", <<>>, c, serverSpaces, Nothing)
                    EXCEPT !.space = GetActiveSpaceCall(c)]
    /\ UNCHANGED <<c, serverSpaces, reset, startup, create>>

\* The server's administrators add and remove spaces at any time.
ServerChange ==
    /\ \/ \E s \in Spaces : serverSpaces' = Append(serverSpaces, s)
       \/ \E i \in 1..Len(serverSpaces) :
             serverSpaces' = [j \in 1..(Len(serverSpaces) - 1) |->
                                 IF j < i THEN serverSpaces[j] ELSE serverSpaces[j + 1]]
    /\ serverSpaces' \in SpaceLists
    /\ last' = Event("ServerChange", <<>>, c, serverSpaces', Nothing)
    /\ UNCHANGED <<c, reset, startup, create>>

Next ==
    \/ GetSystemClient
    \/ GetSpacedClient
    \/ SetSpaceNameOrId
    \/ GetActiveSpace
    \/ ServerChange

Spec == Init /\ [][Next]_vars

\* The factory is not in use: what the factory's variables hold while another
\* part of the program is examined.
FactoryIdle ==
    /\ c = NewClientFactory("nil", "https://octopus", "API-KEY", <<>>, NilAsker)
    /\ serverSpaces = <<>>
    /\ reset = [pending |-> FALSE, SpaceScopedClient |-> NilClient,
                fresh |-> TRUE, system |-> NilClient]
    /\ last = Event("NewClientFactory", <<>>, c, serverSpaces, Nothing)

\* ------------------------------------------- NewClientFactoryFromEnvironment
\* Values of OCTOPUS_HOST and OCTOPUS_API_KEY; an unset variable reads as "".
\* "%zz" is a host url.Parse rejects (invalid escape).
Hosts == {"", "https://octopus", "%zz"}
ApiKeys == {"", "API-KEY"}

\* The process environment: the three variables read and whether CI is set.
ProcessEnvironments == [host : Hosts, apiKey : ApiKeys, space : Identifiers, ci : BOOLEAN]

\* (ClientFactory)(nil)
NilFactory == NewClientFactory("nil", "", "", <<>>, NilAsker)

\* multierror.Append(result, &cliErrors.OsEnvironmentError{EnvironmentVariable: v}):
\* the collected errors are kept as the names of their variables, in order.
MultierrorAppend(result, v) == Append(result, v)

\* (*multierror.Error).ErrorOrNil()
ErrorOrNil(result) ==
    IF result = <<>> THEN NoError ELSE [kind |-> "multierror", msg |-> result]

\* Variant: validation stops at the first missing variable.
ValidateMandatoryEnvironmentFirstOnly(host, apiKey) ==
    IF host = "" THEN ErrorOrNil(MultierrorAppend(<<>>, "OCTOPUS_HOST"))
    ELSE IF apiKey = "" THEN ErrorOrNil(MultierrorAppend(<<>>, "OCTOPUS_API_KEY"))
    ELSE ErrorOrNil(<<>>)

\* ValidateMandatoryEnvironment(host, apiKey)
ValidateMandatoryEnvironment(host, apiKey) ==
    LET r0 == <<>>
        r1 == IF host = "" THEN MultierrorAppend(r0, "OCTOPUS_HOST") ELSE r0
        r2 == IF apiKey = "" THEN MultierrorAppend(r1, "OCTOPUS_API_KEY") ELSE r1
    IN  ErrorOrNil(r2)

\* url.Parse(host): the error, if any.
UrlParse(host) ==
    IF host = "%zz" THEN [kind |-> "url", msg |-> <<"invalid URL escape">>]
    ELSE NoError

\* NewClientFactory with its error result: the host must parse.
NewClientFactoryOrError(httpClient, host, apiKey, spaceNameOrID, asker) ==
    IF UrlParse(host) # NoError
    THEN [factory |-> NilFactory, err |-> UrlParse(host)]
    ELSE [factory |-> NewClientFactory(httpClient, host, apiKey, spaceNameOrID, asker),
          err |-> NoError]

\* NewClientFactoryFromEnvironment(): errs is what validation returned.
NewClientFactoryFromEnvironmentCall(env) ==
    LET ask  == IF env.ci THEN NilAsker ELSE "survey.AskOne"
        errs == ValidateMandatoryEnvironment(env.host, env.apiKey)
        r    == NewClientFactoryOrError("nil", env.host, env.apiKey, env.space, ask)
    IN  IF errs # NoError
        THEN [errs |-> errs, factory |-> NilFactory, err |-> errs]
        ELSE [errs |-> errs, factory |-> r.factory, err |-> r.err]

NotStarted == [errs |-> NoError, factory |-> NilFactory, err |-> NoError]

InitStartup ==
    /\ FactoryIdle
    /\ create = "none"
    /\ \E env \in ProcessEnvironments :
          startup = [env |-> env, pc |-> "start", out |-> NotStarted]

NewClientFactoryFromEnvironment ==
    /\ startup.pc = "start"
    /\ startup' = [startup EXCEPT !.pc = "done",
                                  !.out = NewClientFactoryFromEnvironmentCall(startup.env)]
    /\ UNCHANGED <<c, serverSpaces, reset, last, create>>

NextStartup == NewClientFactoryFromEnvironment

SpecStartup == InitStartup /\ [][NextStartup]_vars

\* ------------------------------------------------------ ssh account create
\* []string(nil) and a non-nil []string.
NilStrings == [isNil |-> TRUE, items |-> <<>>]
Strings(items) == [isNil |-> FALSE, items |-> items]

\* Error of os.ReadFile, and of writing to opts.Writer.
FileError == [kind |-> "os", msg |-> <<"open: permission denied">>]
WriteError == [kind |-> "io", msg |-> <<"short write">>]

\* CreateOptions: the fields CreateRun and promptMissing read.
CreateOptions ==
    [ Name         : {<<>>, <<"n">>},
      Description  : {<<>>, <<"d">>},
      KeyFileData  : {<<>>, <<"k">>},
      Username     : {<<>>, <<"u">>},
      Passphrase   : {<<>>, <<"p">>},
      Environments : {NilStrings, Strings(<<>>), Strings(<<"Environments-1">>)},
      NoPrompt     : BOOLEAN ]

\* What the user does with a question: interrupts it or answers with one of vals.
Replies(vals) ==
    {[err |-> PromptError, value |-> <<>>]} \cup {[err |-> NoError, value |-> v] : v \in vals}

\* What the world does during one CreateRun: the user's replies (required
\* answers are non-empty, optional ones may be empty), the file system, the
\* SDK and the writer.
CreateEnvironments ==
    [ name          : Replies({<<"n">>}),
      description   : Replies({<<>>, <<"d">>}),
      username      : Replies({<<"u">>}),
      keyFilePath   : Replies({<<"f">>}),
      readFile      : {[err |-> FileError, value |-> <<>>], [err |-> NoError, value |-> <<"k">>]},
      passphrase    : Replies({<<>>, <<"p">>}),
      environments  : Replies({<<"Environments-1">>}),
      newAccount    : {NoError, UpstreamError},
      add           : {NoError, UpstreamError},
      write         : {NoError, WriteError} ]

\* opts.Ask(question, &field): st is the run of promptMissing so far; once it
\* has returned an error nothing more happens.
AskField(st, question, field, reply) ==
    IF st.err # NoError THEN st
    ELSE IF reply.err # NoError
    THEN [st EXCEPT !.asked = Append(@, question), !.failed = question, !.err = reply.err]
    ELSE [st EXCEPT !.asked = Append(@, question), !.opts[field] = reply.value]

\* The private key: the path is asked for, then the file is read.
AskKeyFile(st, question, o) ==
    IF st.err # NoError THEN st
    ELSE IF o.keyFilePath.err # NoError
    THEN [st EXCEPT !.asked = Append(@, question), !.failed = question,
                    !.err = o.keyFilePath.err]
    ELSE IF o.readFile.err # NoError
    THEN [st EXCEPT !.asked = Append(@, question), !.err = o.readFile.err]
    ELSE [st EXCEPT !.asked = Append(@, question), !.opts.KeyFileData = o.readFile.value]

\* selectors.EnvironmentsMultiSelect(ask, octopus, spinner, message): one
\* multi-select question answered with environment IDs, or its error.
EnvironmentsMultiSelect(st, question, reply) ==
    IF st.err # NoError THEN st
    ELSE IF reply.err # NoError
    THEN [st EXCEPT !.asked = Append(@, question), !.failed = question, !.err = reply.err]
    ELSE [st EXCEPT !.asked = Append(@, question), !.opts.Environments = Strings(reply.value)]

\* promptMissing(opts)
promptMissing(opts, o) ==
    LET s0 == [opts |-> opts, asked |-> <<>>, failed |-> "", err |-> NoError]
        s1 == IF s0.opts.Name = <<>> THEN AskField(s0, "Name", "Name", o.name) ELSE s0
        s2 == IF s1.opts.Description = <<>>
              THEN AskField(s1, "Description", "Description", o.description) ELSE s1
        s3 == IF s2.opts.Username = <<>>
              THEN AskField(s2, "Username", "Username", o.username) ELSE s2
        s4 == IF Len(s3.opts.KeyFileData) = 0
              THEN AskKeyFile(s3, "Private Key File Path", o) ELSE s3
        s5 == IF s4.opts.Passphrase = <<>>
              THEN AskField(s4, "Passphrase", "Passphrase", o.passphrase) ELSE s4
        s6 == IF s5.opts.Environments.isNil
              THEN EnvironmentsMultiSelect(s5, "Environments", o.environments) ELSE s5
    IN  s6

\* The rest of CreateRun after the prompts: build the account, add it, report.
\* nAdd counts the calls of Accounts.Add, created says that one succeeded.
AddAccount(p, o) ==
    LET done == [opts |-> p.opts, asked |-> p.asked, failed |-> p.failed,
                 err |-> NoError, nAdd |-> 0, created |-> FALSE]
    IN  IF o.newAccount # NoError THEN [done EXCEPT !.err = o.newAccount]
        ELSE IF o.add # NoError THEN [done EXCEPT !.err = o.add, !.nAdd = 1]
        ELSE IF o.write # NoError
        THEN [done EXCEPT !.err = o.write, !.nAdd = 1, !.created = TRUE]
        ELSE [done EXCEPT !.nAdd = 1, !.created = TRUE]

\* Variant: a failed prompt does not stop the command.
CreateRunCallSwallowsPromptError(opts, o) ==
    LET quiet == [opts |-> opts, asked |-> <<>>, failed |-> "", err |-> NoError]
        p == IF opts.NoPrompt THEN quiet ELSE promptMissing(opts, o)
    IN  AddAccount(p, o)

\* CreateRun(opts)
CreateRunCall(opts, o) ==
    LET quiet == [opts |-> opts, asked |-> <<>>, failed |-> "", err |-> NoError]
        p == IF opts.NoPrompt THEN quiet ELSE promptMissing(opts, o)
    IN  IF p.err # NoError
        THEN [opts |-> p.opts, asked |-> p.asked, failed |-> p.failed,
              err |-> p.err, nAdd |-> 0, created |-> FALSE]
        ELSE AddAccount(p, o)

InitCreate ==
    /\ FactoryIdle
    /\ startup = "none"
    /\ \E opts \in CreateOptions :
          create = [opts |-> opts, pc |-> "start",
                    out |-> [opts |-> opts, asked |-> <<>>, failed |-> "",
                             err |-> NoError, nAdd |-> 0, created |-> FALSE]]

CreateRun ==
    /\ create.pc = "start"
    /\ \E r \in {CreateRunCall(create.opts, o) : o \in CreateEnvironments} :
          create' = [create EXCEPT !.pc = "done", !.out = r]
    /\ UNCHANGED <<c, serverSpaces, reset, last, startup>>

NextCreate == CreateRun

SpecCreate == InitCreate /\ [][NextCreate]_vars

\* ------------------------------------------------------------------ claims
\* The spaces of a list, and the matches of an identifier in it.
Range(l) == {l[i] : i \in 1..Len(l)}
NameMatches(l, x) == {i \in 1..Len(l) : EqualFold(l[i].Name, x)}
IDMatches(l, x) == {i \in 1..Len(l) : EqualFold(l[i].ID, x)}

\* strings.Contains over sequences of characters.
Contains(msg, x) == \E i \in 1..(Len(msg) - Len(x) + 1) : SubSeq(msg, i, i + Len(x) - 1) = x

\* The last event is a GetSpacedClient that had to resolve a space.
Resolving == last.op = "GetSpacedClient" /\ last.pre.SpaceScopedClient = NilClient

\* C1: when a space-scoped handle is cached, GetSystemClient returns that
\* very handle, constructs nothing and caches no system handle.
C1_SystemReusesSpaced ==
    (last.op = "GetSystemClient" /\ last.pre.SpaceScopedClient # NilClient) =>
        /\ last.ret = last.pre.SpaceScopedClient
        /\ last.err = NoError
        /\ last.nNew = 0
        /\ c.SystemClient = NilClient
        /\ c.SpaceScopedClient = last.pre.SpaceScopedClient

C1_Witness ==
    /\ last.op = "GetSystemClient"
    /\ last.pre.SpaceScopedClient # NilClient
    /\ last.ret = last.pre.SpaceScopedClient

\* C2 as stated: SetSpaceNameOrId(id) leaves both handles and the resolved
\* space absent and the requested identifier equal to id, and the next
\* GetSpacedClient (when no network step fails) lists the spaces again.
C2_NextCallListsAgain ==
    /\ last.op = "SetSpaceNameOrId" =>
          /\ c.SystemClient = NilClient
          /\ c.SpaceScopedClient = NilClient
          /\ c.ActiveSpace = NilSpace
          /\ c.SpaceNameOrID = last.arg
    /\ (last.op = "GetSpacedClient" /\ last.first /\ last.cause = NoError) =>
          last.nList >= 1

\* C2 as amended: SetSpaceNameOrId(id) leaves both handles and the resolved
\* space absent and the requested identifier equal to id. The next
\* GetSpacedClient never returns the handle dropped by the reset; it lists
\* the spaces again, exactly once, unless it fails before the lookup (the
\* system handle cannot be constructed, or id is empty and prompting is
\* disabled); when it succeeds the space is one of the fresh list that id
\* matches (any one when id is empty) and the handle is newly constructed
\* and bound to it.
C2_ResetForcesResolution ==
    /\ last.op = "SetSpaceNameOrId" =>
          /\ c.SystemClient = NilClient
          /\ c.SpaceScopedClient = NilClient
          /\ c.ActiveSpace = NilSpace
          /\ c.SpaceNameOrID = last.arg
    /\ (last.op = "GetSpacedClient" /\ last.first) =>
          /\ last.pre.SpaceScopedClient = NilClient
          /\ last.ret # NilClient => last.ret # reset.SpaceScopedClient
          /\ last.nList <= 1
          /\ last.nList = 0 =>
                \/ last.err = last.cause /\ last.cause # NoError /\ last.nNew = 1
                \/ /\ last.err = ErrSpaceMustBeSpecified
                   /\ last.pre.SpaceNameOrID = <<>>
                   /\ last.pre.Ask = NilAsker
          /\ last.err = NoError =>
                /\ last.nList = 1
                /\ last.nNew >= 1
                /\ c.ActiveSpace \in Range(last.srv)
                /\ last.pre.SpaceNameOrID # <<>> =>
                      \/ EqualFold(c.ActiveSpace.Name, last.pre.SpaceNameOrID)
                      \/ EqualFold(c.ActiveSpace.ID, last.pre.SpaceNameOrID)
                /\ last.ret = c.SpaceScopedClient
                /\ last.ret.SpaceID = c.ActiveSpace.ID

\* A resolution after a reset that dropped a handle, onto another space.
C2_Witness ==
    /\ last.op = "GetSpacedClient"
    /\ last.first
    /\ last.err = NoError
    /\ reset.SpaceScopedClient # NilClient
    /\ last.ret.SpaceID # reset.SpaceScopedClient.SpaceID

\* C3: when one space's name and another space's ID both fold to the
\* requested identifier, the lookup resolves to a space matched by name,
\* wherever the two stand in the list.
C3_NameMatchWins ==
    (/\ Resolving
     /\ last.pre.SpaceNameOrID # <<>>
     /\ last.nList = 1
     /\ last.err # ErrCannotLoadSpaces(UpstreamError)
     /\ \E i \in NameMatches(last.srv, last.pre.SpaceNameOrID) :
           \E j \in IDMatches(last.srv, last.pre.SpaceNameOrID) : i # j) =>
        /\ c.ActiveSpace \in Range(last.srv)
        /\ EqualFold(c.ActiveSpace.Name, last.pre.SpaceNameOrID)
        /\ last.err = NoError =>
              /\ last.ret # NilClient
              /\ last.ret.SpaceID = c.ActiveSpace.ID

\* The space matched by ID stands before the space matched by name.
C3_Witness ==
    /\ Resolving
    /\ last.err = NoError
    /\ \E i \in NameMatches(last.srv, last.pre.SpaceNameOrID) :
          \E j \in IDMatches(last.srv, last.pre.SpaceNameOrID) :
             /\ j < i
             /\ c.ActiveSpace = last.srv[i]
             /\ last.pre.SpaceNameOrID # last.srv[i].Name

\* C4: with no identifier requested and prompting disabled, GetSpacedClient
\* returns an error, lists nothing, asks nothing and caches neither a space
\* nor a space-scoped handle, whatever the server holds.
C4_NoPromptNeverGuesses ==
    (/\ last.op = "GetSpacedClient"
     /\ last.pre.SpaceNameOrID = <<>>
     /\ last.pre.Ask = NilAsker) =>
        /\ last.err # NoError
        /\ last.cause = NoError => last.err = ErrSpaceMustBeSpecified
        /\ last.ret = NilClient
        /\ last.nList = 0
        /\ last.nAsk = 0
        /\ c.ActiveSpace = NilSpace
        /\ c.SpaceScopedClient = NilClient
        /\ c.SpaceNameOrID = <<>>

\* ... when the server has exactly one space.
C4_Witness ==
    /\ last.op = "GetSpacedClient"
    /\ last.pre.SpaceNameOrID = <<>>
    /\ last.pre.Ask = NilAsker
    /\ Len(last.srv) = 1
    /\ last.err = ErrSpaceMustBeSpecified

\* C5: whenever a network-dependent step of GetSpacedClient or
\* GetSystemClient fails, the error returned is the underlying error itself.
C5_UpstreamErrorUnmodified ==
    last.cause # NoError => last.err = last.cause

\* C6 as stated: when the listing returns zero spaces, GetSpacedClient fails
\* with "no spaces found" and caches neither a space nor a handle.
C6_ZeroSpacesNoSpacesFound ==
    (/\ last.op = "GetSpacedClient"
     /\ last.nList >= 1
     /\ last.cause = NoError
     /\ last.srv = <<>>) =>
        /\ last.err = ErrNoSpacesFound
        /\ c.ActiveSpace = NilSpace
        /\ c.SpaceScopedClient = NilClient

\* C6 as amended: when the listing returns zero spaces, GetSpacedClient
\* fails, with "no spaces found" when no identifier is requested and with
\* "cannot find space '<identifier>'" when one is; the call returns no
\* handle, caches no space-scoped handle and caches no space (the resolved
\* space stays as it was, absent when no identifier is requested).
C6_ZeroSpacesFails ==
    (/\ last.op = "GetSpacedClient"
     /\ last.nList >= 1
     /\ last.cause = NoError
     /\ last.srv = <<>>) =>
        /\ last.err = IF last.pre.SpaceNameOrID = <<>>
                      THEN ErrNoSpacesFound
                      ELSE ErrCannotFindSpace(last.pre.SpaceNameOrID)
        /\ last.ret = NilClient
        /\ c.ActiveSpace = last.pre.ActiveSpace
        /\ last.pre.SpaceNameOrID = <<>> => c.ActiveSpace = NilSpace
        /\ c.SpaceScopedClient = NilClient

C6_Witness ==
    /\ last.op = "GetSpacedClient"
    /\ last.nList = 1
    /\ last.srv = <<>>
    /\ last.err = ErrNoSpacesFound

\* C7: with exactly one space on the server, no identifier requested and
\* prompting enabled, GetSpacedClient never asks; unless a network step
\* fails, it resolves to that space and returns a handle bound to its ID.
C7_SingleSpaceAutoSelected ==
    (/\ last.op = "GetSpacedClient"
     /\ last.pre.SpaceNameOrID = <<>>
     /\ last.pre.Ask # NilAsker
     /\ Len(last.srv) = 1) =>
        /\ last.nAsk = 0
        /\ last.err = last.cause
        /\ last.err = NoError =>
              /\ c.ActiveSpace = last.srv[1]
              /\ last.ret # NilClient
              /\ last.ret.SpaceID = last.srv[1].ID
              /\ c.SpaceScopedClient = last.ret

C7_Witness ==
    /\ last.op = "GetSpacedClient"
    /\ last.pre.SpaceNameOrID = <<>>
    /\ last.pre.Ask # NilAsker
    /\ Len(last.srv) = 1
    /\ last.err = NoError
    /\ c.ActiveSpace = last.srv[1]

\* C8: when the requested identifier is not empty and folds to no space's
\* name and to no space's ID, the lookup fails with an error whose message
\* contains the identifier exactly as requested, and the call caches neither
\* a space nor a space-scoped handle.
C8_NoMatchNamesIdentifier ==
    (/\ Resolving
     /\ last.pre.SpaceNameOrID # <<>>
     /\ last.cause = NoError
     /\ NameMatches(last.srv, last.pre.SpaceNameOrID) = {}
     /\ IDMatches(last.srv, last.pre.SpaceNameOrID) = {}) =>
        /\ last.err # NoError
        /\ Contains(last.err.msg, last.pre.SpaceNameOrID)
        /\ last.ret = NilClient
        /\ c.ActiveSpace = last.pre.ActiveSpace
        /\ c.SpaceScopedClient = NilClient
        /\ c.SpaceNameOrID = last.pre.SpaceNameOrID

\* An upper-case identifier that no space of a non-empty list matches.
C8_Witness ==
    /\ Resolving
    /\ last.pre.SpaceNameOrID = <<"A">>
    /\ last.srv # <<>>
    /\ last.err = ErrCannotFindSpace(<<"A">>)

\* C9: a successful GetSpacedClient leaves the resolved space and the
\* space-scoped handle cached and the system handle absent, and in every
\* state at most one of the two handles is cached.
C9_AtMostOneHandle ==
    /\ (last.op = "GetSpacedClient" /\ last.err = NoError) =>
          /\ c.ActiveSpace # NilSpace
          /\ c.SpaceScopedClient # NilClient
          /\ c.SpaceScopedClient = last.ret
          /\ c.SystemClient = NilClient
    /\ c.SystemClient = NilClient \/ c.SpaceScopedClient = NilClient

\* A success that dropped a system handle cached by an earlier call.
C9_Witness ==
    /\ last.op = "GetSpacedClient"
    /\ last.err = NoError
    /\ last.pre.SystemClient # NilClient
    /\ c.SystemClient = NilClient

\* C10: once a space-scoped handle is cached, GetSpacedClient returns it,
\* lists nothing, asks nothing, constructs nothing and changes nothing,
\* whatever the server holds by then.
C10_SpacedClientMemoized ==
    (last.op = "GetSpacedClient" /\ last.pre.SpaceScopedClient # NilClient) =>
        /\ last.ret = last.pre.SpaceScopedClient
        /\ last.err = NoError
        /\ last.nList = 0
        /\ last.nAsk = 0
        /\ last.nNew = 0
        /\ c = last.pre

\* The resolved space is no longer on the server.
C10_Witness ==
    /\ last.op = "GetSpacedClient"
    /\ last.pre.SpaceScopedClient # NilClient
    /\ last.ret = last.pre.SpaceScopedClient
    /\ \A i \in 1..Len(last.srv) : last.srv[i].ID # last.pre.ActiveSpace.ID

\* C11: GetActiveSpace returns the struct's resolved space and changes
\* nothing; it is nil from construction, and from each SetSpaceNameOrId,
\* until the next GetSpacedClient, and once a GetSpacedClient has succeeded
\* it is the space that the cached handle is bound to.
C11_ActiveSpaceLazy ==
    /\ reset.fresh => GetActiveSpaceCall(c) = NilSpace
    /\ (last.op = "GetSpacedClient" /\ last.err = NoError) =>
          /\ GetActiveSpaceCall(c) # NilSpace
          /\ GetActiveSpaceCall(c).ID = last.ret.SpaceID
          /\ last.pre.SpaceScopedClient = NilClient => GetActiveSpaceCall(c) \in Range(last.srv)
    /\ last.op = "GetActiveSpace" =>
          /\ c = last.pre
          /\ last.space = last.pre.ActiveSpace
          /\ reset.fresh => last.space = NilSpace
          /\ c.SpaceScopedClient # NilClient =>
                /\ last.space # NilSpace
                /\ last.space.ID = c.SpaceScopedClient.SpaceID

\* GetActiveSpace returns nil after a reset that dropped a resolved space.
C11_Witness ==
    /\ last.op = "GetActiveSpace"
    /\ reset.pending
    /\ reset.SpaceScopedClient # NilClient
    /\ last.space = NilSpace

\* C12: when the requested identifier is not empty, folds to no space's name
\* and folds to some space's ID, the lookup resolves to a space of the list
\* whose ID folds to it; the call fails only if the construction of the
\* space-scoped handle fails, and the handle it returns is bound to that
\* space's ID.
C12_IDFallback ==
    (/\ Resolving
     /\ last.pre.SpaceNameOrID # <<>>
     /\ last.nList = 1
     /\ last.err # ErrCannotLoadSpaces(UpstreamError)
     /\ NameMatches(last.srv, last.pre.SpaceNameOrID) = {}
     /\ IDMatches(last.srv, last.pre.SpaceNameOrID) # {}) =>
        /\ c.ActiveSpace \in Range(last.srv)
        /\ EqualFold(c.ActiveSpace.ID, last.pre.SpaceNameOrID)
        /\ last.err = last.cause
        /\ last.err = NoError =>
              /\ last.ret # NilClient
              /\ last.ret.SpaceID = c.ActiveSpace.ID
              /\ c.SpaceScopedClient = last.ret

\* The ID matches only case-insensitively.
C12_Witness ==
    /\ Resolving
    /\ last.err = NoError
    /\ last.nList = 1
    /\ NameMatches(last.srv, last.pre.SpaceNameOrID) = {}
    /\ EqualFold(c.ActiveSpace.ID, last.pre.SpaceNameOrID)
    /\ c.ActiveSpace.ID # last.pre.SpaceNameOrID

\* The struct needs one more handle than it caches before GetSpacedClient
\* can list: 1 when the system handle is constructed by the call, else 0.
SystemMissing(cc) ==
    IF cc.SystemClient = NilClient /\ cc.SpaceScopedClient = NilClient THEN 1 ELSE 0

\* C13: the prompt is shown only by a GetSpacedClient with no identifier
\* requested, prompting enabled and more than one space listed, and then
\* exactly once: such a call skips it only when a network step before it
\* fails. The call resolves to the space the user selects, and when the
\* prompt fails it returns the prompt's error and caches neither a space nor
\* a space-scoped handle.
C13_PromptOnlyWhenSeveral ==
    /\ last.nAsk > 0 =>
          /\ last.op = "GetSpacedClient"
          /\ last.pre.SpaceNameOrID = <<>>
          /\ last.pre.Ask # NilAsker
          /\ Len(last.srv) > 1
    /\ (/\ last.op = "GetSpacedClient"
        /\ last.pre.SpaceNameOrID = <<>>
        /\ last.pre.Ask # NilAsker
        /\ Len(last.srv) > 1) =>
          /\ last.nAsk <= 1
          /\ last.nAsk = 0 =>
                /\ last.cause # NoError
                /\ last.err = last.cause
                /\ c.ActiveSpace = NilSpace
          /\ (last.nAsk = 1 /\ last.answer.err # NoError) =>
                /\ last.err = last.answer.err
                /\ last.ret = NilClient
                /\ c.ActiveSpace = NilSpace
                /\ c.SpaceScopedClient = NilClient
                /\ c.SpaceNameOrID = <<>>
          /\ (last.nAsk = 1 /\ last.answer.err = NoError) =>
                /\ c.ActiveSpace = last.srv[last.answer.idx]
                /\ c.SpaceNameOrID = last.srv[last.answer.idx].ID
                /\ last.err = last.cause
                /\ last.err = NoError =>
                      /\ last.ret.SpaceID = last.srv[last.answer.idx].ID
                      /\ c.SpaceScopedClient = last.ret

\* The user selects the second space of the list.
C13_Witness ==
    /\ last.op = "GetSpacedClient"
    /\ last.nAsk = 1
    /\ last.answer.idx = 2
    /\ last.err = NoError
    /\ c.ActiveSpace = last.srv[2]

\* C14: once GetSystemClient has returned a handle, later GetSystemClient
\* calls return that same handle and construct nothing, until a
\* SetSpaceNameOrId or a successful GetSpacedClient; no GetSystemClient
\* lists, asks, or changes the requested identifier, the resolved space or
\* the space-scoped handle, and it constructs at most one handle.
C14_SystemClientMemoized ==
    last.op = "GetSystemClient" =>
        /\ last.nList = 0
        /\ last.nAsk = 0
        /\ last.nNew <= 1
        /\ c.SpaceNameOrID = last.pre.SpaceNameOrID
        /\ c.ActiveSpace = last.pre.ActiveSpace
        /\ c.SpaceScopedClient = last.pre.SpaceScopedClient
        /\ last.prior # NilClient =>
              /\ last.err = NoError
              /\ last.ret = last.prior
              /\ last.nNew = 0

\* A second GetSystemClient returns the system handle of the first.
C14_Witness ==
    /\ last.op = "GetSystemClient"
    /\ last.prior # NilClient
    /\ last.ret = last.prior
    /\ last.pre.SpaceScopedClient = NilClient
    /\ last.ret.SpaceID = <<>>

\* C15: every call leaves the HTTP client, the host URL, the API key and the
\* prompt function as NewClientFactory set them, and right after
\* construction both handles and the resolved space are absent and the
\* requested identifier is the one given.
C15_CredentialsFixed ==
    /\ c.HttpClient = last.pre.HttpClient
    /\ c.ApiUrl = last.pre.ApiUrl
    /\ c.ApiKey = last.pre.ApiKey
    /\ c.Ask = last.pre.Ask
    /\ c.HttpClient = "http.Client"
    /\ c.ApiUrl = "https://octopus"
    /\ c.ApiKey = "API-KEY"
    /\ last.op = "NewClientFactory" =>
          /\ c.SystemClient = NilClient
          /\ c.SpaceScopedClient = NilClient
          /\ c.ActiveSpace = NilSpace
          /\ c.SpaceNameOrID = last.arg

\* A reset after a resolution: the mutable fields changed, the rest did not.
C15_Witness ==
    /\ last.op = "SetSpaceNameOrId"
    /\ last.pre.SpaceScopedClient # NilClient
    /\ c.SpaceScopedClient = NilClient
    /\ c.SpaceNameOrID # last.pre.SpaceNameOrID
    /\ c.ApiKey = last.pre.ApiKey

\* C16: a GetSpacedClient that returns an error leaves the requested
\* identifier, the resolved space and the space-scoped handle as they were.
C16_FailureLeavesStateAlone ==
    (last.op = "GetSpacedClient" /\ last.err # NoError) =>
        /\ c.SpaceNameOrID = last.pre.SpaceNameOrID
        /\ c.ActiveSpace = last.pre.ActiveSpace
        /\ c.SpaceScopedClient = last.pre.SpaceScopedClient

\* C17: a cached space-scoped handle comes with the resolved space, is bound
\* to its ID, and the requested identifier is that ID; a resolved space
\* comes with a cached space-scoped handle bound to it.
C17_CacheAgrees ==
    /\ c.SpaceScopedClient # NilClient =>
          /\ c.ActiveSpace # NilSpace
          /\ c.SpaceScopedClient.SpaceID = c.ActiveSpace.ID
          /\ c.SpaceNameOrID = c.ActiveSpace.ID
    /\ c.ActiveSpace # NilSpace =>
          /\ c.SpaceScopedClient # NilClient
          /\ c.SpaceScopedClient.SpaceID = c.ActiveSpace.ID

\* C18: one GetSpacedClient lists at most once, asks at most once and
\* constructs each handle at most once; when a step fails the call returns
\* without any later step: no listing after a failed construction of the
\* system handle, no prompt and no construction after a failed listing, no
\* construction after a failed prompt or lookup.
C18_NoRetry ==
    last.op = "GetSpacedClient" =>
        /\ last.nList <= 1
        /\ last.nAsk <= 1
        /\ last.nNew >= SystemMissing(last.pre)
        /\ last.nNew <= SystemMissing(last.pre) + 1
        /\ last.pre.SpaceScopedClient # NilClient => last.nNew = 0
        /\ last.nNew = SystemMissing(last.pre) + 1 =>
              /\ last.nList = 1
              /\ last.err = last.cause
        /\ (last.err # NoError /\ last.nNew = SystemMissing(last.pre)) =>
              /\ last.ret = NilClient
              /\ c.SpaceScopedClient = NilClient
              /\ last.nList = 0 => last.nAsk = 0
              /\ (last.cause # NoError /\ last.nList = 0) =>
                    /\ last.nNew = 1
                    /\ c = last.pre
              /\ (last.cause # NoError /\ last.nList = 1) =>
                    /\ last.nAsk = 0
                    /\ c.ActiveSpace = last.pre.ActiveSpace
                    /\ c.SpaceNameOrID = last.pre.SpaceNameOrID

\* The listing fails after the system handle was constructed.
C18_Witness ==
    /\ last.op = "GetSpacedClient"
    /\ last.cause # NoError
    /\ last.nList = 1
    /\ last.nNew = 1
    /\ last.pre.SystemClient = NilClient
    /\ c.SystemClient # NilClient
    /\ last.ret = NilClient

\* The questions promptMissing can ask, in the order of its code, and the
\* ones whose field is missing in opts.
Questions ==
    <<"Name", "Description", "Username", "Private Key File Path", "Passphrase",
      "Environments">>
IsMissing(opts, q) ==
    CASE q = "Name" -> opts.Name = <<>>
      [] q = "Description" -> opts.Description = <<>>
      [] q = "Username" -> opts.Username = <<>>
      [] q = "Private Key File Path" -> opts.KeyFileData = <<>>
      [] q = "Passphrase" -> opts.Passphrase = <<>>
      [] q = "Environments" -> opts.Environments = NilStrings
MissingQuestions(opts) ==
    LET Test(q) == IsMissing(opts, q) IN SelectSeq(Questions, Test)
IsPrefix(a, b) == Len(a) <= Len(b) /\ SubSeq(b, 1, Len(a)) = a

\* C19: CreateRun asks nothing when NoPrompt is set; otherwise it asks for
\* the missing fields only, in the fixed order, stopping early only when a
\* question or the key file read fails; when a question fails CreateRun
\* returns that error and Accounts.Add is not called, so no account is created.
C19_PromptsOnlyForMissing ==
    create.pc = "done" =>
        LET opts == create.opts
            out == create.out
            missing == MissingQuestions(opts)
        IN  /\ opts.NoPrompt => (out.asked = <<>> /\ out.failed = "")
            /\ IsPrefix(out.asked, missing)
            /\ (~opts.NoPrompt /\ out.asked # missing) =>
                  (out.err \in {PromptError, FileError} /\ out.nAdd = 0)
            /\ out.failed # "" =>
                  /\ out.err = PromptError
                  /\ out.nAdd = 0
                  /\ ~out.created
                  /\ out.asked[Len(out.asked)] = out.failed
            /\ \A f \in {"Name", "Description", "Username", "KeyFileData", "Passphrase"} :
                  opts[f] # <<>> => out.opts[f] = opts[f]
            /\ ~opts.Environments.isNil => out.opts.Environments = opts.Environments

\* With prompting enabled and nothing given, the user answers the first two
\* questions and interrupts the third.
C19_Witness ==
    /\ create.pc = "done"
    /\ ~create.opts.NoPrompt
    /\ create.opts.Description = <<>>
    /\ create.out.asked = <<"Name", "Description", "Username">>
    /\ create.out.failed = "Username"
    /\ create.out.err = PromptError
    /\ create.out.nAdd = 0

\* C20: ValidateMandatoryEnvironment returns nil exactly when host and apiKey
\* are both non-empty; otherwise its error holds one OsEnvironmentError per
\* empty value, and NewClientFactoryFromEnvironment returns that error and
\* no factory.
C20_MissingEnvironmentReported ==
    startup.pc = "done" =>
        LET env == startup.env
            out == startup.out
            missing == {v \in {"OCTOPUS_HOST", "OCTOPUS_API_KEY"} :
                           \/ v = "OCTOPUS_HOST" /\ env.host = ""
                           \/ v = "OCTOPUS_API_KEY" /\ env.apiKey = ""}
        IN  /\ out.errs = NoError <=> (env.host # "" /\ env.apiKey # "")
            /\ out.errs # NoError =>
                  /\ out.errs.kind = "multierror"
                  /\ Range(out.errs.msg) = missing
                  /\ Len(out.errs.msg) = Cardinality(missing)
                  /\ out.err = out.errs
                  /\ out.factory = NilFactory

\* Neither variable is set: both are reported and no factory is returned.
C20_Witness ==
    /\ startup.pc = "done"
    /\ startup.env.host = ""
    /\ startup.env.apiKey = ""
    /\ startup.out.err = [kind |-> "multierror", msg |-> <<"OCTOPUS_HOST", "OCTOPUS_API_KEY">>]
    /\ startup.out.factory = NilFactory

====
